---- MODULE Spec2Model ----
(***************************************************************************)
(* DockerNudge: Wake-on-LAN sender.                                        *)
(*                                                                         *)
(*   wol_core.py        validate_mac_address, create_magic_packet,         *)
(*                      send_wol_packet                                    *)
(*   wol_sender.py      a copy of the three functions plus main(), the     *)
(*                      command-line entry point                           *)
(*   wol_sender_gui.py  WoLGUIApp: one thread per selected target          *)
(*                                                                         *)
(* A Python str is a sequence of characters, a character a string of       *)
(* length one.  The one exception is U+00DF (sharp s), written "sz".       *)
(* bytes are sequences of integers 0..255.                                 *)
(***************************************************************************)
EXTENDS Integers, Sequences, FiniteSets, TLC

(***************************************************************************)
(* Characters and the str methods the code uses.                           *)
(***************************************************************************)
HexUpper == <<"0","1","2","3","4","5","6","7","8","9","A","B","C","D","E","F">>

HexLower == <<"0","1","2","3","4","5","6","7","8","9","a","b","c","d","e","f">>

\* The hexadecimal digits int(s, 16) and bytes.fromhex accept.
IsHexChar(c) == \E i \in 1..16 : HexUpper[i] = c \/ HexLower[i] = c

HexVal(c) == (CHOOSE i \in 1..16 : HexUpper[i] = c \/ HexLower[i] = c) - 1

\* ASCII whitespace: stripped by int(), skipped by bytes.fromhex().
IsSpace(c) == c \in {" ", "\t", "\n"}

\* str.upper() on one character.  The full Unicode mapping may lengthen the
\* string: U+00DF uppercases to "SS".
UpperChar(c) ==
    IF \E i \in 1..16 : HexLower[i] = c
    THEN <<HexUpper[CHOOSE i \in 1..16 : HexLower[i] = c]>>
    ELSE CASE c = "x" -> <<"X">>
           [] c = "g" -> <<"G">>
           [] c = "sz" -> <<"S", "S">>
           [] OTHER -> <<c>>

RECURSIVE upper(_)
upper(s) == IF s = <<>> THEN <<>> ELSE UpperChar(Head(s)) \o upper(Tail(s))

\* s.replace(old, new) for a one-character old.
RECURSIVE replace(_, _, _)
replace(s, old, new) ==
    IF s = <<>> THEN <<>>
    ELSE (IF Head(s) = old THEN new ELSE <<Head(s)>>) \o replace(Tail(s), old, new)

RECURSIVE StripLeft(_)
StripLeft(s) == IF s # <<>> /\ IsSpace(Head(s)) THEN StripLeft(Tail(s)) ELSE s

RECURSIVE StripRight(_)
StripRight(s) ==
    IF s # <<>> /\ IsSpace(s[Len(s)]) THEN StripRight(SubSeq(s, 1, Len(s) - 1)) ELSE s

\* The digit part of an int() literal: hex digits, single underscores between.
RECURSIVE DigitsOk(_, _)
DigitsOk(s, prevDigit) ==
    IF s = <<>> THEN prevDigit
    ELSE IF IsHexChar(Head(s)) THEN DigitsOk(Tail(s), TRUE)
    ELSE IF Head(s) = "_" THEN prevDigit /\ DigitsOk(Tail(s), FALSE)
    ELSE FALSE

\* int(s, 16) returns (TRUE) or raises ValueError (FALSE): surrounding
\* whitespace, a sign, a 0x prefix and underscores between digits are accepted.
IntBase16Accepts(s) ==
    LET t == StripRight(StripLeft(s))
        u == IF t # <<>> /\ Head(t) \in {"+", "-"} THEN Tail(t) ELSE t
        prefixed == Len(u) >= 2 /\ u[1] = "0" /\ u[2] \in {"x", "X"}
        v == IF prefixed THEN SubSeq(u, 3, Len(u)) ELSE u
        w == IF prefixed /\ v # <<>> /\ Head(v) = "_" THEN Tail(v) ELSE v
    IN  w # <<>> /\ IsHexChar(Head(w)) /\ DigitsOk(w, FALSE)

\* bytes.fromhex(s): whitespace is skipped before each byte, a byte is two
\* adjacent hex digits; anything else raises ValueError.
RECURSIVE fromhex(_)
fromhex(s) ==
    LET t == StripLeft(s)
    IN  IF t = <<>> THEN [raised |-> "", value |-> <<>>]
        ELSE IF Len(t) >= 2 /\ IsHexChar(t[1]) /\ IsHexChar(t[2])
        THEN LET rest == fromhex(SubSeq(t, 3, Len(t)))
             IN  IF rest.raised # "" THEN rest
                 ELSE [raised |-> "",
                       value |-> <<16 * HexVal(t[1]) + HexVal(t[2])>> \o rest.value]
        ELSE [raised |-> "ValueError: non-hexadecimal number found in fromhex()",
              value |-> <<>>]

RECURSIVE Repeat(_, _)
Repeat(s, n) == IF n = 0 THEN <<>> ELSE s \o Repeat(s, n - 1)

(***************************************************************************)
(* wol_core.py (wol_sender.py holds the same three functions).             *)
(***************************************************************************)
MacLen == 12

\* A slip in the separator list: the period is not removed.
SeparatorsNoDot == <<":", "-">>

Separators == <<":", "-", ".">>

ErrLength == "ValueError: Invalid MAC address length"

ErrFormat == "ValueError: Invalid MAC address format"

\* mac.replace(':', '').replace('-', '').replace('.', '')
RECURSIVE StripSeparators(_, _)
StripSeparators(s, seps) ==
    IF seps = <<>> THEN s ELSE StripSeparators(replace(s, Head(seps), <<>>), Tail(seps))

Normalize(mac) == upper(StripSeparators(mac, Separators))

\* A slip in the length test: short strings pass it.
LengthOkAtMost(mac) == Len(mac) <= MacLen

LengthOk(mac) == Len(mac) = MacLen

validate_mac_address(raw) ==
    LET mac == Normalize(raw)
    IN  IF ~LengthOk(mac) THEN [raised |-> ErrLength, value |-> mac]
        ELSE IF ~IntBase16Accepts(mac) THEN [raised |-> ErrFormat, value |-> mac]
        ELSE [raised |-> "", value |-> mac]

create_magic_packet(mac_address) ==
    LET mac == validate_mac_address(mac_address)
        mac_bytes == fromhex(mac.value)
    IN  IF mac.raised # "" THEN [raised |-> mac.raised, value |-> <<>>]
        ELSE IF mac_bytes.raised # "" THEN [raised |-> mac_bytes.raised, value |-> <<>>]
        ELSE [raised |-> "",
              value |-> Repeat(<<255>>, 6) \o Repeat(mac_bytes.value, 16)]

(***************************************************************************)
(* State.                                                                  *)
(***************************************************************************)
MaxThreads == 2

\* One slot per invocation of send_wol_packet: the GUI's threads, or slot 1
\* for the single call of wol_sender.main.
Slots == 1..MaxThreads

VARIABLES
    \* the pure functions on their own (SpecNormalize)
    gen,        \* how the input string was written (address, style, case, slip)
    raw,        \* the string handed to validate_mac_address / create_magic_packet
    pcN,        \* "input" -> "validated" -> "built"
    norm,       \* what validate_mac_address(raw) returned or raised
    packet,     \* what create_magic_packet(raw) returned or raised
    \* send_wol_packet, per invocation
    pc,           \* where the invocation stands
    args,         \* name, mac_address, target_ip, port
    magic_packet, \* local: the packet built
    sock,         \* local: the socket object bound to the name sock (0: unbound)
    bytes_sent,   \* local: what sendto returned
    exc,          \* the exception the except clause caught ("" none)
    ret,          \* the value returned
    log,          \* what the invocation wrote to the logger
    ops,          \* the socket operations the invocation attempted, in order
    \* the operating system's sockets, by identity
    sockets,
    \* wol_sender.main
    env,        \* TARGET_MAC, TARGET_IP, WOL_PORT
    cliPc,      \* "main" -> "sending" -> "exited"
    exit_code,  \* the process exit code (-1: still running)
    \* WoLGUIApp
    targets,    \* self.targets["targets"]
    menu,       \* the targets behind the menu's "Wake ..." items
    appPc,      \* "constructed" -> "running"
    nthreads,   \* threads started so far
    \* WoLGUIApp from main() on, in CLI mode
    file,       \* the configuration file on disk
    logger,     \* whether self.logger has been set
    lastLoad,   \* the last call of load_config: when, what it found and did
    lastChoice, \* the last line read by run_cli_mode and what came of it
    appExit     \* the exit code of the application process (-1: running)

normVars == <<gen, raw, pcN, norm, packet>>

callVars == <<pc, args, magic_packet, sock, bytes_sent, exc, ret, log, ops>>

cliVars == <<env, cliPc, exit_code>>

modeVars == <<file, logger, lastLoad, lastChoice, appExit>>

guiVars == <<targets, menu, appPc, nthreads, modeVars>>

vars == <<normVars, callVars, sockets, cliVars, guiVars>>

(***************************************************************************)
(* Input strings: a hardware address written in one of the accepted        *)
(* styles, with at most one slip of the pen (some characters dropped       *)
(* and/or a run of one character typed in).                                *)
(***************************************************************************)
Addrs ==
    << <<"0","0","1","1","2","2","3","3","4","4","5","5">>,
       <<"A","A","B","B","C","C","D","D","E","E","F","F">>,
       <<"D","E","A","D","B","E","E","F","0","0","9","A">>,
       <<"0","1","2","3","4","5","6","7","8","9","A","B">> >>

NumAddrs == 2

MaxDelete == 2

MaxInsert == 2

Styles == {"colon", "hyphen", "dot", "none"}

Cases == {"upper", "lower", "mixed"}

TypedChars == {"G", "x", "_", "+", " ", "sz", ":", "f"}

LowerChar(c) == IF \E i \in 1..16 : HexUpper[i] = c
                THEN HexLower[CHOOSE i \in 1..16 : HexUpper[i] = c] ELSE c

StyleSep(style) == CASE style = "colon" -> <<":">>
                     [] style = "hyphen" -> <<"-">>
                     [] style = "dot" -> <<".">>
                     [] OTHER -> <<>>

\* colon and hyphen group by two digits, dot by four (0011.2233.4455)
StyleGroup(style) == IF style = "dot" THEN 4 ELSE 2

RECURSIVE RenderFrom(_, _, _, _)
RenderFrom(d, i, style, case) ==
    IF i > Len(d) THEN <<>>
    ELSE (IF i > 1 /\ (i - 1) % StyleGroup(style) = 0 THEN StyleSep(style) ELSE <<>>)
         \o <<IF case = "lower" \/ (case = "mixed" /\ i % 2 = 1)
              THEN LowerChar(d[i]) ELSE d[i]>>
         \o RenderFrom(d, i + 1, style, case)

Render(d, style, case) == RenderFrom(d, 1, style, case)

NoSlip == [at |-> "front", ndel |-> 0, ch |-> "G", k |-> 0]

Slips ==
    {e \in [at : {"front", "second", "back"}, ndel : 0..MaxDelete,
            ch : TypedChars, k : 0..MaxInsert] :
        /\ e.k = 0 => e.ch = "G"
        /\ (e.k = 0 /\ e.ndel = 0) => e.at = "front"}

SlipPos(s, e) == CASE e.at = "front" -> 1
                   [] e.at = "second" -> 2
                   [] OTHER -> Len(s) - e.ndel + 1

ApplySlip(s, e) ==
    LET p == SlipPos(s, e)
    IN  SubSeq(s, 1, p - 1) \o Repeat(<<e.ch>>, e.k) \o SubSeq(s, p + e.ndel, Len(s))

Gens == [addr : 1..NumAddrs, style : Styles, case : Cases, slip : Slips]

Written(g) == ApplySlip(Render(Addrs[g.addr], g.style, g.case), g.slip)

Pending == [raised |-> "pending", value |-> <<>>]

(***************************************************************************)
(* Python values and the states of the parts that are not running.         *)
(***************************************************************************)
\* bool is a subclass of int: True == 1, False == 0.
PyBool(b) == [type |-> "bool", value |-> IF b THEN 1 ELSE 0]

PyInt(n) == [type |-> "int", value |-> n]

PyNone == [type |-> "NoneType", value |-> 0]

Truthy(v) == v.value # 0

NoArgs == [name |-> "", mac |-> <<>>, ip |-> "", port |-> 0]

NoCalls ==
    /\ pc = [t \in Slots |-> "idle"]
    /\ args = [t \in Slots |-> NoArgs]
    /\ magic_packet = [t \in Slots |-> <<>>]
    /\ sock = [t \in Slots |-> 0]
    /\ bytes_sent = [t \in Slots |-> 0]
    /\ exc = [t \in Slots |-> ""]
    /\ ret = [t \in Slots |-> PyNone]
    /\ log = [t \in Slots |-> <<>>]
    /\ ops = [t \in Slots |-> <<>>]
    /\ sockets = <<>>

NormalizeOff ==
    /\ gen = [addr |-> 1, style |-> "none", case |-> "upper", slip |-> NoSlip]
    /\ raw = <<>>
    /\ pcN = "off"
    /\ norm = Pending
    /\ packet = Pending

NoEnv == [TARGET_MAC |-> [set |-> FALSE, value |-> <<>>],
          TARGET_IP |-> [set |-> FALSE, value |-> ""],
          WOL_PORT |-> [set |-> FALSE, value |-> <<>>]]

CliOff == env = NoEnv /\ cliPc = "off" /\ exit_code = -1

NoFile == [state |-> "missing", content |-> <<>>]

NoLoad == [when |-> "none", state |-> "missing", raised |-> "", value |-> <<>>,
           logged |-> <<>>]

NoChoice == [kind |-> "none", num |-> 0, shown |-> <<>>, started |-> 0]

ModeOff ==
    /\ file = NoFile
    /\ logger = TRUE
    /\ lastLoad = NoLoad
    /\ lastChoice = NoChoice
    /\ appExit = -1

GuiOff == targets = <<>> /\ menu = <<>> /\ appPc = "off" /\ nthreads = 0 /\ ModeOff

(***************************************************************************)
(* SpecNormalize: the two pure functions applied to an input string, as    *)
(* demo.py does (validate_mac_address, then create_magic_packet).          *)
(***************************************************************************)
InitNormalize ==
    /\ gen \in Gens
    /\ raw = Written(gen)
    /\ pcN = "input"
    /\ norm = Pending
    /\ packet = Pending
    /\ NoCalls
    /\ CliOff
    /\ GuiOff

Validate ==
    /\ pcN = "input"
    /\ norm' = validate_mac_address(raw)
    /\ pcN' = "validated"
    /\ UNCHANGED <<gen, raw, packet, callVars, sockets, cliVars, guiVars>>

BuildPacket ==
    /\ pcN = "validated"
    /\ packet' = create_magic_packet(raw)
    /\ pcN' = "built"
    /\ UNCHANGED <<gen, raw, norm, callVars, sockets, cliVars, guiVars>>

NextNormalize == Validate \/ BuildPacket

SpecNormalize == InitNormalize /\ [][NextNormalize]_vars

(***************************************************************************)
(* send_wol_packet(mac_address, target_ip, port, logger), one action per   *)
(* step that touches the socket; the logging and the return that follow a  *)
(* step belong to it.                                                      *)
(***************************************************************************)
Info(m, s, n) == [level |-> "info", msg |-> m, text |-> s, n |-> n]

Error(m, s, n) == [level |-> "error", msg |-> m, text |-> s, n |-> n]

Broadcast == "255.255.255.255"

NewSocket(t) == [creator |-> t, open |-> TRUE, broadcast |-> FALSE,
                 sent |-> <<>>, usedBy |-> {}, closedBy |-> -1]

\* A slip: the validation error is swallowed and the call goes on.
AfterCreatePacketSwallowed(res) == "socket"

\* create_magic_packet raises into the except clause, or returns
AfterCreatePacket(res) == IF res.raised # "" THEN "except" ELSE "socket"

\* A slip: the socket is kept in a module-level name all invocations share.
BindSockGlobal(t, s) == [u \in DOMAIN sock |-> s]

\* sock = socket.socket(...): sock is a local name of the invocation
BindSock(t, s) == [sock EXCEPT ![t] = s]

\* A slip: the byte count is returned in place of True.
ReturnBytesSent(n) == PyInt(n)

\* return True
ReturnOnSuccess(n) == PyBool(TRUE)

\* except Exception as e: logger.error(...); return False.  The frame goes
\* with its local names; nothing closes the socket sock may be bound to.
Except(t, e, said, tried) ==
    /\ exc' = [exc EXCEPT ![t] = e]
    /\ log' = [log EXCEPT ![t] =
                  (@ \o said) \o <<Error("Failed to send Wake-on-LAN packet", e, 0)>>]
    /\ ops' = [ops EXCEPT ![t] = @ \o tried]
    /\ ret' = [ret EXCEPT ![t] = PyBool(FALSE)]
    /\ pc' = [pc EXCEPT ![t] = "returned"]
    /\ sock' = [sock EXCEPT ![t] = 0]

CreatePacket(t) ==
    /\ pc[t] = "start"
    /\ LET res == create_magic_packet(args[t].mac)
           said == <<Info("Creating magic packet for MAC address", "", 0)>>
       IN  IF AfterCreatePacket(res) = "except"
           THEN /\ Except(t, res.raised, said, <<>>)
                /\ UNCHANGED magic_packet
           ELSE /\ magic_packet' = [magic_packet EXCEPT ![t] = res.value]
                /\ log' = [log EXCEPT ![t] = @ \o said]
                /\ pc' = [pc EXCEPT ![t] = "socket"]
                /\ UNCHANGED <<sock, exc, ret, ops>>
    /\ UNCHANGED <<args, bytes_sent, sockets, normVars, cliVars, guiVars>>

CreateSocket(t) ==
    /\ pc[t] = "socket"
    /\ LET said == <<Info("Creating UDP socket for broadcast to", args[t].ip, args[t].port)>>
       IN  \E ok \in BOOLEAN :
             IF ok
             THEN /\ sockets' = Append(sockets, NewSocket(t))
                  /\ sock' = BindSock(t, Len(sockets) + 1)
                  /\ log' = [log EXCEPT ![t] = @ \o said]
                  /\ ops' = [ops EXCEPT ![t] = Append(@, "socket")]
                  /\ pc' = [pc EXCEPT ![t] = "setsockopt"]
                  /\ UNCHANGED <<exc, ret>>
             ELSE /\ Except(t, "OSError: socket", said, <<"socket">>)
                  /\ UNCHANGED sockets
    /\ UNCHANGED <<args, magic_packet, bytes_sent, normVars, cliVars, guiVars>>

SetSockOpt(t) ==
    /\ pc[t] = "setsockopt"
    /\ LET s == sock[t]
       IN  \E ok \in BOOLEAN :
             /\ ok => sockets[s].open
             /\ sockets' = [sockets EXCEPT ![s].usedBy = @ \cup {t},
                                           ![s].broadcast = @ \/ ok]
             /\ IF ok
                THEN /\ ops' = [ops EXCEPT ![t] = Append(@, "setsockopt")]
                     /\ pc' = [pc EXCEPT ![t] = "sendto"]
                     /\ UNCHANGED <<sock, exc, ret, log>>
                ELSE Except(t, "OSError: setsockopt", <<>>, <<"setsockopt">>)
    /\ UNCHANGED <<args, magic_packet, bytes_sent, normVars, cliVars, guiVars>>

SendTo(t) ==
    /\ pc[t] = "sendto"
    /\ LET s == sock[t]
           said == <<Info("Sending Wake-on-LAN packet...", "", 0)>>
           datagram == [by |-> t, data |-> magic_packet[t], ip |-> args[t].ip,
                        port |-> args[t].port, broadcast |-> sockets[s].broadcast]
       IN  \E ok \in BOOLEAN :
             \* a closed socket, or a broadcast destination without
             \* SO_BROADCAST, is refused by the operating system
             /\ ok => /\ sockets[s].open
                      /\ args[t].ip = Broadcast => sockets[s].broadcast
             /\ IF ok
                THEN /\ sockets' = [sockets EXCEPT ![s].usedBy = @ \cup {t},
                                                   ![s].sent = Append(@, datagram)]
                     /\ bytes_sent' = [bytes_sent EXCEPT ![t] = Len(magic_packet[t])]
                     /\ log' = [log EXCEPT ![t] = @ \o said \o
                           <<Info("Successfully sent bytes to", args[t].ip,
                                  Len(magic_packet[t]))>>]
                     /\ ops' = [ops EXCEPT ![t] = Append(@, "sendto")]
                     /\ pc' = [pc EXCEPT ![t] = "close"]
                     /\ UNCHANGED <<sock, exc, ret>>
                ELSE /\ sockets' = [sockets EXCEPT ![s].usedBy = @ \cup {t}]
                     /\ Except(t, "OSError: sendto", said, <<"sendto">>)
                     /\ UNCHANGED bytes_sent
    /\ UNCHANGED <<args, magic_packet, normVars, cliVars, guiVars>>

Close(t) ==
    /\ pc[t] = "close"
    /\ LET s == sock[t]
       IN  sockets' = [sockets EXCEPT
               ![s].usedBy = @ \cup {t},
               ![s].open = FALSE,
               ![s].closedBy = IF sockets[s].open THEN t ELSE @]
    /\ log' = [log EXCEPT ![t] = Append(@, Info("Socket closed successfully", "", 0))]
    /\ ops' = [ops EXCEPT ![t] = Append(@, "close")]
    /\ ret' = [ret EXCEPT ![t] = ReturnOnSuccess(bytes_sent[t])]
    /\ pc' = [pc EXCEPT ![t] = "returned"]
    /\ sock' = [sock EXCEPT ![t] = 0]
    /\ UNCHANGED <<args, magic_packet, bytes_sent, exc, normVars, cliVars, guiVars>>

\* The runtime's garbage collector finalizes a socket object no name refers
\* to any more, at a time of its choosing (or never): it closes the socket.
Finalize(s) ==
    /\ s \in 1..Len(sockets)
    /\ sockets[s].open
    /\ \A t \in Slots : sock[t] # s
    /\ sockets' = [sockets EXCEPT ![s].open = FALSE, ![s].closedBy = 0]
    /\ UNCHANGED <<callVars, normVars, cliVars, guiVars>>

(***************************************************************************)
(* Strings the sender is given.                                            *)
(***************************************************************************)
ExampleMac == Render(Addrs[1], "colon", "upper")        \* "00:11:22:33:44:55"

MyComputerMac == Render(Addrs[2], "colon", "upper")     \* "AA:BB:CC:DD:EE:FF"

HyphenMac == Render(Addrs[2], "hyphen", "lower")        \* "aa-bb-cc-dd-ee-ff"

ShortMac == SubSeq(ExampleMac, 1, 14)                   \* "00:11:22:33:44"

BadHexMac == <<"G", "G">> \o SubSeq(ExampleMac, 3, 17)  \* "GG:11:22:33:44:55"

PaddedMac == <<" ", " ">> \o SubSeq(Addrs[1], 3, 12)    \* "  1122334455"

PrefixedMac == <<"0", "x">> \o SubSeq(Addrs[1], 3, 12)  \* "0x1122334455"

(***************************************************************************)
(* wol_sender.py: main().                                                  *)
(***************************************************************************)
\* int(s) for the port strings used here: surrounding whitespace stripped,
\* then decimal digits only (no sign, no underscore among the inputs).
RECURSIVE DecValue(_, _)
DecValue(s, acc) ==
    IF s = <<>> THEN acc ELSE DecValue(Tail(s), 10 * acc + HexVal(Head(s)))

IntBase10(s) ==
    LET t == StripRight(StripLeft(s))
    IN  IF t # <<>> /\ \A i \in 1..Len(t) : \E d \in 1..10 : HexUpper[d] = t[i]
        THEN [raised |-> "", value |-> DecValue(t, 0)]
        ELSE [raised |-> "ValueError: invalid literal for int() with base 10",
              value |-> 0]

EnvMacs == {ExampleMac, HyphenMac, ShortMac, BadHexMac, PaddedMac, PrefixedMac}

EnvPorts == {<<"9">>, <<"4", "0", "0", "0", "0">>, <<"w", "o", "l">>}

Envs ==
    [TARGET_MAC : {[set |-> FALSE, value |-> <<>>], [set |-> TRUE, value |-> <<>>]}
                  \cup {[set |-> TRUE, value |-> m] : m \in EnvMacs},
     TARGET_IP : {[set |-> FALSE, value |-> ""], [set |-> TRUE, value |-> "192.168.1.100"]},
     WOL_PORT : {[set |-> FALSE, value |-> <<>>]}
                \cup {[set |-> TRUE, value |-> p] : p \in EnvPorts}]

\* os.getenv(name, default)
getenv(v, default) == IF v.set THEN v.value ELSE default

\* A slip: the process reports success whatever send_wol_packet returned.
ExitCodeAlwaysZero(success) == 0

\* sys.exit(0) if success, sys.exit(1) otherwise
ExitCode(success) == IF success THEN 0 ELSE 1

InitSender ==
    /\ env \in Envs
    /\ cliPc = "main"
    /\ exit_code = -1
    /\ NoCalls
    /\ NormalizeOff
    /\ GuiOff

\* main() up to the call of send_wol_packet.  An exception main does not
\* catch (int() on WOL_PORT) ends the process with exit status 1.
CliMain ==
    /\ cliPc = "main"
    /\ LET mac_address == env.TARGET_MAC
           target_ip == getenv(env.TARGET_IP, Broadcast)
           port == IntBase10(getenv(env.WOL_PORT, <<"9">>))
       IN  IF port.raised # "" \/ ~mac_address.set \/ mac_address.value = <<>>
           THEN /\ exit_code' = 1
                /\ cliPc' = "exited"
                /\ UNCHANGED <<pc, args>>
           ELSE /\ pc' = [pc EXCEPT ![1] = "start"]
                /\ args' = [args EXCEPT ![1] =
                      [name |-> "", mac |-> mac_address.value,
                       ip |-> target_ip, port |-> port.value]]
                /\ cliPc' = "sending"
                /\ UNCHANGED exit_code
    /\ UNCHANGED <<env, magic_packet, sock, bytes_sent, exc, ret, log, ops,
                   sockets, normVars, guiVars>>

\* main() after send_wol_packet has returned
CliExit ==
    /\ cliPc = "sending"
    /\ pc[1] = "returned"
    /\ exit_code' = ExitCode(Truthy(ret[1]))
    /\ cliPc' = "exited"
    /\ UNCHANGED <<env, callVars, sockets, normVars, guiVars>>

NextSender ==
    \/ CliMain
    \/ CreatePacket(1)
    \/ CreateSocket(1)
    \/ SetSockOpt(1)
    \/ SendTo(1)
    \/ Close(1)
    \/ CliExit
    \/ \E s \in 1..Len(sockets) : Finalize(s)

SpecSender == InitSender /\ [][NextSender]_vars

(***************************************************************************)
(* wol_sender_gui.py: WoLGUIApp in GUI mode.                               *)
(***************************************************************************)
ExampleTarget ==
    [name |-> "Example Target", mac |-> ExampleMac, ip |-> Broadcast, port |-> 9]

MyComputer ==
    [name |-> "My Computer", mac |-> MyComputerMac, ip |-> "192.168.1.100", port |-> 9]

ShortTarget ==
    [name |-> "Short", mac |-> ShortMac, ip |-> Broadcast, port |-> 9]

PaddedTarget ==
    [name |-> "Padded", mac |-> PaddedMac, ip |-> "192.168.1.100", port |-> 9]

\* What load_config returned: the default configuration, or a file's.
Configs == { <<ExampleTarget>>,
             <<MyComputer, PaddedTarget>>,
             <<ShortTarget, ExampleTarget>> }

\* The targets create_menu makes a "Wake ..." item for.
create_menu(ts) == SelectSeq(ts, LAMBDA tg : validate_mac_address(tg.mac).raised = "")

Init ==
    /\ targets \in Configs
    /\ menu = <<>>
    /\ appPc = "constructed"
    /\ nthreads = 0
    /\ ModeOff
    /\ NoCalls
    /\ NormalizeOff
    /\ CliOff

\* run(): the menu is built and the icon shown
Run ==
    /\ appPc = "constructed"
    /\ menu' = create_menu(targets)
    /\ appPc' = "running"
    /\ UNCHANGED <<targets, nthreads, modeVars, callVars, sockets, normVars, cliVars>>

\* A menu item is chosen: send_wol_to_target(target) starts a thread, which
\* logs and calls send_wol_packet.
SendWolToTarget(i) ==
    /\ appPc = "running"
    /\ i \in 1..Len(menu)
    /\ nthreads < MaxThreads
    /\ LET t == nthreads + 1
       IN  /\ pc' = [pc EXCEPT ![t] = "start"]
           /\ args' = [args EXCEPT ![t] = menu[i]]
           /\ log' = [log EXCEPT ![t] = <<Info("Sending WoL packet to", menu[i].name, 0)>>]
    /\ nthreads' = nthreads + 1
    /\ UNCHANGED <<magic_packet, sock, bytes_sent, exc, ret, ops, sockets,
                   targets, menu, appPc, modeVars, normVars, cliVars>>

\* send_packet after send_wol_packet has returned: the thread logs and ends
ThreadEnd(t) ==
    /\ pc[t] = "returned"
    /\ pc' = [pc EXCEPT ![t] = "done"]
    /\ log' = [log EXCEPT ![t] = Append(@,
          IF Truthy(ret[t])
          THEN Info("Successfully sent WoL packet to", args[t].name, 0)
          ELSE Error("Failed to send WoL packet to", args[t].name, 0))]
    /\ UNCHANGED <<args, magic_packet, sock, bytes_sent, exc, ret, ops, sockets,
                   normVars, cliVars, guiVars>>

Next ==
    \/ Run
    \/ \E i \in 1..Len(menu) : SendWolToTarget(i)
    \/ \E t \in Slots : CreatePacket(t)
    \/ \E t \in Slots : CreateSocket(t)
    \/ \E t \in Slots : SetSockOpt(t)
    \/ \E t \in Slots : SendTo(t)
    \/ \E t \in Slots : Close(t)
    \/ \E t \in Slots : ThreadEnd(t)
    \/ \E s \in 1..Len(sockets) : Finalize(s)

Spec == Init /\ [][Next]_vars

(***************************************************************************)
(* wol_sender_gui.py from main() on, without the GUI libraries: the        *)
(* application is constructed and runs run_cli_mode.                       *)
(***************************************************************************)
MaxSends == 1

\* What the configuration file may hold when it parses.
FileContents == Configs

FileStates ==
    {[state |-> "missing", content |-> <<>>], [state |-> "corrupt", content |-> <<>>]}
    \cup {[state |-> "ok", content |-> c] : c \in FileContents}

\* load_config's "Default configuration", returned when the file does not exist
DefaultConfig == <<ExampleTarget>>

NoLoggerError == "AttributeError: 'WoLGUIApp' object has no attribute 'logger'"

\* load_config(): what it returns or raises and what it logs.  Opening or
\* parsing an unreadable file raises into the except clause, which calls
\* self.logger.error and returns {"targets": []}; self.logger is an
\* attribute lookup, which raises AttributeError before setup_logging has run.
load_config(f, hasLogger) ==
    CASE f.state = "missing" ->
            [raised |-> "", value |-> DefaultConfig, logged |-> <<>>]
      [] f.state = "ok" ->
            [raised |-> "", value |-> f.content, logged |-> <<>>]
      [] OTHER ->
            IF hasLogger
            THEN [raised |-> "", value |-> <<>>,
                  logged |-> <<Error("Failed to load config", "JSONDecodeError", 0)>>]
            ELSE [raised |-> NoLoggerError, value |-> <<>>, logged |-> <<>>]

LoadRecord(when, f, r) ==
    [when |-> when, state |-> f.state, raised |-> r.raised, value |-> r.value,
     logged |-> r.logged]

InitCliMode ==
    /\ file \in FileStates
    /\ logger = FALSE
    /\ lastLoad = NoLoad
    /\ lastChoice = NoChoice
    /\ appExit = -1
    /\ targets = <<>>
    /\ menu = <<>>
    /\ appPc = "new"
    /\ nthreads = 0
    /\ NoCalls
    /\ NormalizeOff
    /\ CliOff

\* main(): app = WoLGUIApp().  __init__ calls load_config, then
\* setup_logging; an exception is caught by main, which prints it and calls
\* sys.exit(1).
Construct ==
    /\ appPc = "new"
    /\ LET r == load_config(file, logger)
       IN  /\ lastLoad' = LoadRecord("construct", file, r)
           /\ IF r.raised # ""
              THEN /\ appPc' = "failed"
                   /\ appExit' = 1
                   /\ UNCHANGED <<targets, logger>>
              ELSE /\ targets' = r.value
                   /\ logger' = TRUE
                   /\ appPc' = "constructed"
                   /\ UNCHANGED appExit
    /\ UNCHANGED <<file, lastChoice, menu, nthreads, callVars, sockets, normVars, cliVars>>

\* run() without the GUI libraries, and run_cli_mode up to its loop: the
\* configuration is saved when there is no file yet.
RunCliMode ==
    /\ appPc = "constructed"
    /\ appPc' = "cli"
    /\ file' = IF file.state = "missing" THEN [state |-> "ok", content |-> targets]
               ELSE file
    /\ UNCHANGED <<targets, menu, nthreads, logger, lastLoad, lastChoice, appExit,
                   callVars, sockets, normVars, cliVars>>

\* The user edits the configuration file while the application runs.
FileEdited(f) ==
    /\ appPc = "cli"
    /\ f \in FileStates \ {file}
    /\ file' = f
    /\ UNCHANGED <<targets, menu, appPc, nthreads, logger, lastLoad, lastChoice,
                   appExit, callVars, sockets, normVars, cliVars>>

\* The listing run_cli_mode prints: every target with its number i, and
\* "INVALID" for those validate_mac_address rejects.
Listing(ts) ==
    [i \in 1..Len(ts) |->
        [num |-> i, target |-> ts[i],
         valid |-> validate_mac_address(ts[i].mac).raised = ""]]

\* valid_targets holds the valid targets only; the number read is looked up
\* in it: valid_targets[target_num - 1] when 1 <= target_num <= len(valid_targets)
PickTarget(ts, n) ==
    LET valid_targets == create_menu(ts)
    IN  IF 1 <= n /\ n <= Len(valid_targets) THEN <<valid_targets[n]>> ELSE <<>>

\* The main thread returns and the process exits: its daemon threads die
\* where they stand and the operating system closes its sockets.
ProcessExit ==
    /\ appPc' = "exited"
    /\ appExit' = 0
    /\ pc' = [t \in Slots |->
                IF pc[t] \in {"idle", "returned", "done"} THEN pc[t] ELSE "killed"]
    /\ sock' = [t \in Slots |-> 0]
    /\ sockets' = [s \in 1..Len(sockets) |->
                     [sockets[s] EXCEPT !.open = FALSE,
                                        !.closedBy = IF sockets[s].open THEN 0 ELSE @]]

\* A turn of the loop that finds no valid target: it says so and breaks.
CliNoTargets ==
    /\ appPc = "cli"
    /\ create_menu(targets) = <<>>
    /\ ProcessExit
    /\ UNCHANGED <<targets, menu, nthreads, file, logger, lastLoad, lastChoice,
                   args, magic_packet, bytes_sent, exc, ret, log, ops,
                   normVars, cliVars>>

\* A turn of the loop with 'q' read
CliQuit ==
    /\ appPc = "cli"
    /\ create_menu(targets) # <<>>
    /\ lastChoice' = [kind |-> "q", num |-> 0, shown |-> Listing(targets), started |-> 0]
    /\ ProcessExit
    /\ UNCHANGED <<targets, menu, nthreads, file, logger, lastLoad,
                   args, magic_packet, bytes_sent, exc, ret, log, ops,
                   normVars, cliVars>>

\* A turn of the loop with 'r' read: self.targets = self.load_config()
CliReload ==
    /\ appPc = "cli"
    /\ create_menu(targets) # <<>>
    /\ LET r == load_config(file, logger)
       IN  /\ lastLoad' = LoadRecord("reload", file, r)
           /\ targets' = r.value
    /\ lastChoice' = [kind |-> "r", num |-> 0, shown |-> Listing(targets), started |-> 0]
    /\ UNCHANGED <<menu, appPc, nthreads, file, logger, appExit,
                   callVars, sockets, normVars, cliVars>>

\* A turn of the loop with a number read: send_wol_to_target starts a thread
\* for the target picked, or "Invalid target number" is printed.
CliNumber(n) ==
    /\ appPc = "cli"
    /\ create_menu(targets) # <<>>
    /\ nthreads < MaxSends
    /\ LET picked == PickTarget(targets, n)
           t == nthreads + 1
       IN  IF picked # <<>>
           THEN /\ pc' = [pc EXCEPT ![t] = "start"]
                /\ args' = [args EXCEPT ![t] = picked[1]]
                /\ log' = [log EXCEPT ![t] =
                       <<Info("Sending WoL packet to", picked[1].name, 0)>>]
                /\ nthreads' = nthreads + 1
                /\ lastChoice' = [kind |-> "num", num |-> n,
                                  shown |-> Listing(targets), started |-> t]
           ELSE /\ lastChoice' = [kind |-> "num", num |-> n,
                                  shown |-> Listing(targets), started |-> 0]
                /\ UNCHANGED <<pc, args, log, nthreads>>
    /\ UNCHANGED <<targets, menu, appPc, file, logger, lastLoad, appExit,
                   magic_packet, sock, bytes_sent, exc, ret, ops, sockets,
                   normVars, cliVars>>

\* A turn of the loop with anything else read: "Invalid choice"
CliOther ==
    /\ appPc = "cli"
    /\ create_menu(targets) # <<>>
    /\ lastChoice' = [kind |-> "other", num |-> 0, shown |-> Listing(targets),
                      started |-> 0]
    /\ UNCHANGED <<targets, menu, appPc, nthreads, file, logger, lastLoad, appExit,
                   callVars, sockets, normVars, cliVars>>

NextCliMode ==
    \/ Construct
    \/ RunCliMode
    \/ \E f \in FileStates : FileEdited(f)
    \/ CliNoTargets
    \/ CliQuit
    \/ CliReload
    \/ \E n \in 0..(Len(targets) + 1) : CliNumber(n)
    \/ CliOther
    \/ \E t \in Slots : CreatePacket(t)
    \/ \E t \in Slots : CreateSocket(t)
    \/ \E t \in Slots : SetSockOpt(t)
    \/ \E t \in Slots : SendTo(t)
    \/ \E t \in Slots : Close(t)
    \/ \E t \in Slots : ThreadEnd(t)
    \/ \E s \in 1..Len(sockets) : Finalize(s)

SpecCliMode == InitCliMode /\ [][NextCliMode]_vars

(***************************************************************************)
(* Claims about validate_mac_address and create_magic_packet               *)
(* (SpecNormalize).                                                        *)
(***************************************************************************)
\* The claims' own reading of an input string, independent of the functions.
StrippedOf(s) == SelectSeq(s, LAMBDA c : c \notin {":", "-", "."})

IsUpperHex(c) == \E i \in 1..16 : HexUpper[i] = c

HasNonHex(s) == \E i \in 1..Len(s) : ~IsUpperHex(s[i])

Validated == pcN \in {"validated", "built"}

\* C5: every input that, after removing ':', '-', '.' and uppercasing, holds a
\* character outside 0-9 A-F makes validate_mac_address fail with the
\* invalid-format error.
C5_NonHexFailsWithFormatError ==
    (Validated /\ HasNonHex(upper(StrippedOf(raw)))) => norm.raised = ErrFormat

\* C5, the part that is not about which error is raised: no string with a
\* non-hex character is returned as a valid address.
C5_NonHexNeverReturned ==
    (Validated /\ HasNonHex(upper(StrippedOf(raw)))) => norm.raised # ""

\* C6 as stated: every input whose length after removing ':', '-' and '.' is
\* not 12 makes validate_mac_address fail with the invalid-length error.
C6_StrippedLengthNot12FailsWithLengthError ==
    (Validated /\ Len(StrippedOf(raw)) # 12) => norm.raised = ErrLength

\* C6 amended: every input whose length after removing ':', '-', '.' and
\* uppercasing is not 12 makes validate_mac_address fail with the
\* invalid-length error, whatever characters it holds.
C6_NormalizedLengthNot12FailsWithLengthError ==
    (Validated /\ Len(upper(StrippedOf(raw))) # 12) => norm.raised = ErrLength

\* an 11-digit address ("00:11:22:33:44") and an over-long string with a
\* non-hex character have both been rejected for their length
C6_Witness ==
    /\ pcN = "validated"
    /\ norm.raised = ErrLength
    /\ \/ Len(StrippedOf(raw)) = 11 /\ ~HasNonHex(upper(StrippedOf(raw)))
       \/ Len(StrippedOf(raw)) = 13 /\ HasNonHex(upper(StrippedOf(raw)))

\* The inputs C7 is about: the 12 digits of an address in one of the styles and
\* cases, possibly with further separators typed in, nothing dropped.
WellFormed(g) == g.slip.ndel = 0 /\ (g.slip.k = 0 \/ g.slip.ch = ":")

\* C7: for every address of 12 hex digits validate_mac_address returns the
\* same canonical string (12 characters, uppercase, no separators) whatever
\* the separators and the letter case of the input.
C7_SameCanonicalForm ==
    (Validated /\ WellFormed(gen)) => norm = [raised |-> "", value |-> Addrs[gen.addr]]

\* a lower-case dotted address with letters has been normalized
C7_Witness ==
    /\ pcN = "validated"
    /\ gen.slip = NoSlip /\ gen.style = "dot" /\ gen.case = "lower"
    /\ raw # Addrs[gen.addr]
    /\ \E i \in 1..Len(raw) : raw[i] \in {"a", "b", "c", "d", "e", "f"}
    /\ norm = [raised |-> "", value |-> Addrs[gen.addr]]

\* The 6 bytes a 12-character address encodes.
AddrBytes(a) == [j \in 1..6 |-> 16 * HexVal(a[2 * j - 1]) + HexVal(a[2 * j])]

\* C8: for every address validate_mac_address accepts, create_magic_packet
\* returns exactly 102 bytes: 6 bytes 0xFF, then 16 times the 6 bytes the
\* normalized address encodes.
C8_PacketLayout ==
    (pcN = "built" /\ norm.raised = "") =>
        /\ packet.raised = ""
        /\ Len(packet.value) = 102
        /\ \A i \in 1..6 : packet.value[i] = 255
        /\ \A k \in 0..15 : \A j \in 1..6 :
              packet.value[6 + 6 * k + j] = AddrBytes(norm.value)[j]

(***************************************************************************)
(* Claims about send_wol_packet and main (SpecSender), and about           *)
(* concurrent invocations (Spec).                                          *)
(***************************************************************************)
Returned(t) == pc[t] \in {"returned", "done"}

SocketIds == 1..Len(sockets)

CreatedBy(t) == {s \in SocketIds : sockets[s].creator = t}

\* the datagrams invocation t put on the wire
Datagrams(t) ==
    {d \in UNION {{sockets[s].sent[i] : i \in 1..Len(sockets[s].sent)} : s \in SocketIds} :
        d.by = t}

Attempts(t, op) == Cardinality({i \in 1..Len(ops[t]) : ops[t][i] = op})

\* C1: whenever send_wol_packet created a socket, that socket is closed by
\* the time the call returns, also when setsockopt or sendto failed.
C1_SocketClosedOnReturn ==
    \A t \in Slots : Returned(t) => \A s \in CreatedBy(t) : ~sockets[s].open

\* C2: when the MAC address fails validation, send_wol_packet reports failure
\* and attempts no socket operation: no socket is created, no option set, no
\* datagram sent.
C2_InvalidMacNoSocketOperation ==
    \A t \in Slots :
        (pc[t] # "idle" /\ validate_mac_address(args[t].mac).raised # "") =>
            /\ ops[t] = <<>>
            /\ CreatedBy(t) = {}
            /\ \A s \in SocketIds : t \notin sockets[s].usedBy
            /\ Datagrams(t) = {}
            /\ pc[t] # "start" =>
                  /\ Returned(t)
                  /\ ret[t] = PyBool(FALSE)
                  /\ exc[t] = validate_mac_address(args[t].mac).raised

\* the 11-digit address has been refused, and no socket exists
C2_Witness ==
    /\ pc[1] = "returned"
    /\ args[1].mac = ShortMac
    /\ exc[1] = ErrLength
    /\ ret[1] = PyBool(FALSE)
    /\ sockets = <<>>

\* C3, the part about the number and the order of the operations: at most one
\* sendto per invocation, exactly one when it succeeds, the broadcast option
\* set before it, one of the two outcomes at the end.
C3_SingleSendAfterBroadcast ==
    \A t \in Slots : Returned(t) =>
        /\ Attempts(t, "sendto") <= 1
        /\ ret[t] \in {PyBool(TRUE), PyBool(FALSE)}
        /\ ret[t] = PyBool(TRUE) =>
              /\ Attempts(t, "sendto") = 1
              /\ Cardinality(Datagrams(t)) = 1
              /\ ops[t] = <<"socket", "setsockopt", "sendto", "close">>
        /\ \A d \in Datagrams(t) :
              d.broadcast /\ d.ip = args[t].ip /\ d.port = args[t].port

\* C3: each invocation performs at most one sendto, exactly one on success, of
\* the full 102-byte packet to (target_ip, port), never retries, ends in
\* exactly one of Sent or Failed, and sets the broadcast option before the
\* send.
C3_OneSendOfThe102BytePacket ==
    /\ C3_SingleSendAfterBroadcast
    /\ \A t \in Slots : \A d \in Datagrams(t) : Len(d.data) = 102

\* C4 as stated: on success send returns the number of bytes written, on a
\* transport failure an error carrying the underlying cause.
C4_ReturnsByteCountOrCause ==
    \A t \in Slots : Returned(t) =>
        IF Datagrams(t) # {}
        THEN ret[t].type = "int" /\ ret[t].value = bytes_sent[t]
        ELSE exc[t] \in {"OSError: socket", "OSError: setsockopt", "OSError: sendto"}
                => ret[t].type = "error" /\ ret[t].value = exc[t]

IsTwelveHex(mac) ==
    Len(upper(StrippedOf(mac))) = 12 /\ ~HasNonHex(upper(StrippedOf(mac)))

\* C4 amended: on a successful transmission send_wol_packet returns True, and
\* the number of bytes sendto wrote (102 for an address of 12 hex digits) is
\* only logged; on any failure it returns False, and the cause is only logged.
C4_ReturnsTrueOrFalse ==
    \A t \in Slots : Returned(t) =>
        IF Datagrams(t) # {}
        THEN /\ ret[t] = PyBool(TRUE)
             /\ exc[t] = ""
             /\ \A d \in Datagrams(t) :
                   /\ bytes_sent[t] = Len(d.data)
                   /\ \E i \in 1..Len(log[t]) :
                         log[t][i] = Info("Successfully sent bytes to", d.ip, Len(d.data))
             /\ IsTwelveHex(args[t].mac) => bytes_sent[t] = 102
        ELSE /\ ret[t] = PyBool(FALSE)
             /\ exc[t] # ""
             /\ \E i \in 1..Len(log[t]) :
                   log[t][i] = Error("Failed to send Wake-on-LAN packet", exc[t], 0)

\* a 102-byte packet has been sent and True returned
C4_Witness ==
    /\ pc[1] = "returned"
    /\ ret[1] = PyBool(TRUE)
    /\ bytes_sent[1] = 102
    /\ Datagrams(1) # {}

Transmitted == \E s \in SocketIds : sockets[s].sent # <<>>

C10_SocketsNotShared ==
    /\ \A s \in SocketIds :
          /\ sockets[s].usedBy \subseteq {sockets[s].creator}
          /\ sockets[s].closedBy \in {-1, 0, sockets[s].creator}
          /\ \A i \in 1..Len(sockets[s].sent) : sockets[s].sent[i].by = sockets[s].creator
    /\ \A t \in Slots : sock[t] # 0 => sockets[sock[t]].creator = t
    /\ \A t, u \in Slots : (t # u /\ sock[t] # 0) => sock[t] # sock[u]

\* two invocations are in flight at once, each with its own open socket
C10_Witness ==
    \E t, u \in Slots :
        /\ t # u
        /\ pc[t] = "sendto" /\ pc[u] = "close"
        /\ sock[t] # 0 /\ sock[u] # 0 /\ sock[t] # sock[u]
        /\ sockets[sock[t]].open /\ sockets[sock[u]].open
        /\ sockets[sock[u]].sent # <<>>

(***************************************************************************)
(* Claims about the application in CLI mode (SpecCliMode).                 *)
(***************************************************************************)
\* the row of the listing printed with number n, if any
RowsNumbered(shown, n) == {i \in 1..Len(shown) : shown[i].num = n}

\* C11: in CLI mode, entering the number printed next to a valid target
\* sends the wake packet to exactly that target, and entering the number
\* printed next to an invalid target sends nothing.
C11_NumberSelectsPrintedTarget ==
    lastChoice.kind = "num" =>
        \A i \in RowsNumbered(lastChoice.shown, lastChoice.num) :
            IF lastChoice.shown[i].valid
            THEN /\ lastChoice.started # 0
                 /\ args[lastChoice.started] = lastChoice.shown[i].target
            ELSE lastChoice.started = 0

\* C11 where it does hold: while every target printed up to the chosen
\* number is valid, the number chosen selects the target printed with it.
C11_HoldsUpToFirstInvalidTarget ==
    (lastChoice.kind = "num"
        /\ \A j \in 1..Len(lastChoice.shown) :
              j <= lastChoice.num => lastChoice.shown[j].valid) =>
        \A i \in RowsNumbered(lastChoice.shown, lastChoice.num) :
            IF lastChoice.shown[i].valid
            THEN /\ lastChoice.started # 0
                 /\ args[lastChoice.started] = lastChoice.shown[i].target
            ELSE lastChoice.started = 0

\* C12: whenever the configuration file exists but cannot be read or parsed,
\* load_config logs the failure and returns the empty configuration without
\* raising, during construction as well as on reload.
C12_UnreadableConfigLoggedAndEmpty ==
    (lastLoad.when # "none" /\ lastLoad.state = "corrupt") =>
        /\ lastLoad.raised = ""
        /\ lastLoad.value = <<>>
        /\ lastLoad.logged # <<>>

\* C12 on reload alone, where a logger exists.
C12_OnReload ==
    (lastLoad.when = "reload" /\ lastLoad.state = "corrupt") =>
        /\ lastLoad.raised = ""
        /\ lastLoad.value = <<>>
        /\ lastLoad.logged # <<>>
        /\ targets = <<>>

====
